---- MODULE Spec2Model ----
(***************************************************************************)
(* CompositorOpenGL (shell/platform/windows/compositor_opengl.cc):         *)
(* lazy initialization of the GL function table, creation and collection   *)
(* of framebuffer backing stores, and presentation of a single layer.      *)
(***************************************************************************)
EXTENDS Integers, Sequences, FiniteSets, TLC

\* ------------------------------------------------------------------ bounds
MaxStores == 2    \* FramebufferBackingStore objects ever allocated on the heap
MaxSize == 2      \* widths and heights are 1..MaxSize
MaxLayers == 2    \* layers_count is 0..MaxLayers
MaxMajor == 3     \* GL major versions are MaxMajor - 1 and MaxMajor
MaxMinor == 1     \* GL minor versions are 0..MaxMinor

\* GL object names; 0 names no object. Textures and framebuffers have separate
\* name spaces. One framebuffer belongs to the view, so MaxStores + 1 names are
\* enough for every store to be live.
Names == 1..(MaxStores + 1)
ViewFramebuffers == {1}
ViewTextures == {}
Handles == 1..MaxStores
Sizes == 1..MaxSize
Versions == {MaxMajor - 1, MaxMajor} \X (0..MaxMinor)
Extensions == {"GL_EXT_texture_format_BGRA8888", "GL_APPLE_texture_format_BGRA8888"}
Descriptions == [extensions : SUBSET Extensions, version : Versions]

VARIABLES
  is_initialized_,  \* CompositorOpenGL::is_initialized_
  gl_,              \* CompositorOpenGL::gl_ (the owned function table, or null)
  format_,          \* CompositorOpenGL::format_
  heap,             \* the FramebufferBackingStore objects, by address
  issued,           \* the FlutterBackingStore descriptors the host holds for
                    \* the stores it has not collected
  ctx,              \* the GL context: live objects, bindings, attachments
  base,             \* the GL objects that were live before the first operation
  aborted,          \* the process was stopped by a fatal check or a crash
  misused,          \* CollectBackingStore was given a store that is not live:
                    \* what the program does from then on is undefined
  init_failed,      \* some Initialize attempt has returned false
  last              \* the last public call: its arguments, its result, the
                    \* collaborator and GL calls it made, in order

vars == <<is_initialized_, gl_, format_, heap, issued, ctx, base,
          aborted, misused, init_failed, last>>

\* ------------------------------------------------- collaborators (interfaces)
\* impeller::DescriptionGLES::HasExtension
HasExtension(description, name) == name \in description.extensions

\* impeller::Version::IsAtLeast: lexicographic on (major, minor)
IsAtLeast(version, other) ==
  \/ version[1] > other[1]
  \/ version[1] = other[1] /\ version[2] >= other[2]

\* FML_DCHECK(condition): the check fails, fatally, when the condition is false
FML_DCHECK_fails(condition) == ~condition

\* One entry of the call log
Call(fn, target, args) == [fn |-> fn, target |-> target, args |-> args]
B2I(b) == IF b THEN 1 ELSE 0

\* glGenTextures / glGenFramebuffers return a name that is not in use; names
\* are interchangeable, and the lowest unused one is taken
UnusedName(used) == CHOOSE n \in Names \ used : \A m \in Names \ used : n <= m
GenTextures(c, t) == [c EXCEPT !.textures = @ \cup {t}]
GenFramebuffers(c, f) == [c EXCEPT !.framebuffers = @ \cup {f}]
\* glBindFramebuffer
BindFramebuffer(c, target, id) ==
  IF target = "GL_READ_FRAMEBUFFER" THEN [c EXCEPT !.read = id]
  ELSE IF target = "GL_DRAW_FRAMEBUFFER" THEN [c EXCEPT !.draw = id]
  ELSE [c EXCEPT !.read = id, !.draw = id]
\* glBindTexture(GL_TEXTURE_2D, id)
BindTexture(c, id) == [c EXCEPT !.texture_2d = id]
\* glFramebufferTexture2D(GL_FRAMEBUFFER, GL_COLOR_ATTACHMENT0, GL_TEXTURE_2D, id, 0)
FramebufferTexture2D(c, id) ==
  IF c.draw \in Names THEN [c EXCEPT !.attachment[c.draw] = id] ELSE c
\* glDeleteFramebuffers: unused names and 0 are ignored; a bound name is unbound
DeleteFramebuffers(c, id) ==
  [c EXCEPT !.framebuffers = @ \ {id},
            !.read = IF @ = id THEN 0 ELSE @,
            !.draw = IF @ = id THEN 0 ELSE @,
            !.attachment = [n \in Names |-> IF n = id THEN 0 ELSE @[n]]]
\* glDeleteTextures: unused names and 0 are ignored; a bound name is unbound and
\* the texture is detached from the bound framebuffer
DeleteTextures(c, id) ==
  [c EXCEPT !.textures = @ \ {id},
            !.texture_2d = IF @ = id THEN 0 ELSE @,
            !.attachment = [n \in Names |->
                              IF n = c.draw /\ @[n] = id THEN 0 ELSE @[n]]]

\* ---------------------------------------------------------------- values
NoDescription == [extensions |-> {}, version |-> <<0, 0>>]

NoStore == [state |-> "unallocated", framebuffer_id |-> 0, texture_id |-> 0]

\* The arguments and collaborator state a call has read (the rest keep these
\* defaults)
NoArgs == [layers_count |-> 0, view |-> FALSE, width |-> 0, height |-> 0,
           user_data |-> 0, description |-> NoDescription]
NoCall == [op |-> "none", ret |-> "none", calls |-> << >>, args |-> NoArgs]

\* Descriptors that CreateBackingStore did not fill in: of another kind, or of
\* the right kind with user data that is no store of this compositor
ForeignStores ==
  { [type |-> "kFlutterBackingStoreTypeSoftware", gl_type |-> "kFlutterOpenGLTargetTypeFramebuffer",
     name |-> 0, target |-> "unset", user_data |-> 0],
    [type |-> "kFlutterBackingStoreTypeOpenGL", gl_type |-> "kFlutterOpenGLTargetTypeTexture",
     name |-> 0, target |-> "unset", user_data |-> 0],
    [type |-> "kFlutterBackingStoreTypeOpenGL", gl_type |-> "kFlutterOpenGLTargetTypeFramebuffer",
     name |-> 0, target |-> "unset", user_data |-> 0] }

LayerTypes == {"kFlutterLayerContentTypeBackingStore", "kFlutterLayerContentTypePlatformView"}

\* Descriptors of stores that were collected: user_data points to a deleted
\* FramebufferBackingStore
StaleStores ==
  {[type |-> "kFlutterBackingStoreTypeOpenGL",
    gl_type |-> "kFlutterOpenGLTargetTypeFramebuffer",
    name |-> 0, target |-> "unset", user_data |-> p] :
     p \in {q \in Handles : heap[q].state = "freed"}}

LiveHandles == {p \in Handles : heap[p].state = "live"}
IsLiveStore(store) == store.user_data \in Handles /\ heap[store.user_data].state = "live"

\* ------------------------------------------------ GetSupportedTextureFormat
\* A faulty variant: the Apple extension is taken without looking at the version
GetSupportedTextureFormat_IgnoresVersion(description) ==
  IF HasExtension(description, "GL_EXT_texture_format_BGRA8888")
    THEN "GL_BGRA8_EXT"
  ELSE IF HasExtension(description, "GL_APPLE_texture_format_BGRA8888")
    THEN "GL_BGRA8_EXT"
  ELSE "GL_RGBA8"

GetSupportedTextureFormat(description) ==
  IF HasExtension(description, "GL_EXT_texture_format_BGRA8888")
    THEN "GL_BGRA8_EXT"
  ELSE IF /\ HasExtension(description, "GL_APPLE_texture_format_BGRA8888")
          /\ IsAtLeast(description.version, <<3, 0>>)
    THEN "GL_BGRA8_EXT"
  ELSE "GL_RGBA8"

\* ------------------------------------------------------------- Initialize
\* The outcome of CompositorOpenGL::Initialize() in the current state, when
\* MakeCurrent answers make_current and the resolver yields a table whose
\* IsValid() is valid and whose description is description: what it returns,
\* the fields it leaves and the calls it makes.

\* A faulty variant: the format is chosen (line 149) before the table's
\* validity is looked at (line 144)
InitializeBody_FormatBeforeValidity(make_current, valid, description) ==
  IF ~make_current
    THEN [ret |-> "false", is_initialized_ |-> is_initialized_, gl_ |-> gl_,
          format_ |-> format_,
          calls |-> <<Call("MakeCurrent", "", <<0>>)>>]
  ELSE IF ~valid
    THEN [ret |-> "false", is_initialized_ |-> is_initialized_,
          gl_ |-> "null", format_ |-> GetSupportedTextureFormat(description),
          calls |-> <<Call("MakeCurrent", "", <<1>>),
                      Call("ProcTableGLES", "", << >>),
                      Call("GetSupportedTextureFormat", "", << >>),
                      Call("IsValid", "", <<0>>)>>]
  ELSE [ret |-> "true", is_initialized_ |-> TRUE,
        gl_ |-> "valid",
        format_ |-> GetSupportedTextureFormat(description),
        calls |-> <<Call("MakeCurrent", "", <<1>>),
                    Call("ProcTableGLES", "", << >>),
                    Call("GetSupportedTextureFormat", "", << >>),
                    Call("IsValid", "", <<1>>)>>]

\* Lines 139-151: Initialize past its guard
InitializeBody(make_current, valid, description) ==
  IF ~make_current
    THEN [ret |-> "false", is_initialized_ |-> is_initialized_, gl_ |-> gl_,
          format_ |-> format_,
          calls |-> <<Call("MakeCurrent", "", <<0>>)>>]
  ELSE IF ~valid
    THEN [ret |-> "false", is_initialized_ |-> is_initialized_,
          gl_ |-> "null", format_ |-> format_,
          calls |-> <<Call("MakeCurrent", "", <<1>>),
                      Call("ProcTableGLES", "", << >>),
                      Call("IsValid", "", <<0>>)>>]
  ELSE [ret |-> "true", is_initialized_ |-> TRUE,
        gl_ |-> "valid",
        format_ |-> GetSupportedTextureFormat(description),
        calls |-> <<Call("MakeCurrent", "", <<1>>),
                    Call("ProcTableGLES", "", << >>),
                    Call("IsValid", "", <<1>>),
                    Call("GetSupportedTextureFormat", "", << >>)>>]

\* Line 137 failing: nothing is called and nothing changes
InitializeFatal ==
  [ret |-> "fatal", is_initialized_ |-> is_initialized_, gl_ |-> gl_,
   format_ |-> format_, calls |-> << >>]

\* A faulty variant: no guard at line 137
Initialize_Unguarded(make_current, valid, description) ==
  InitializeBody(make_current, valid, description)

\* A faulty variant: no guard, and a failed attempt clears the flag
Initialize_ResetsOnFailure(make_current, valid, description) ==
  LET r == InitializeBody(make_current, valid, description)
  IN  [r EXCEPT !.is_initialized_ = (r.ret = "true")]

\* A faulty variant: line 145 is missing, the invalid table is kept
Initialize_KeepsInvalidTable(make_current, valid, description) ==
  LET r == InitializeBody(make_current, valid, description)
  IN  IF FML_DCHECK_fails(~is_initialized_) THEN InitializeFatal
      ELSE IF make_current /\ ~valid THEN [r EXCEPT !.gl_ = "invalid"]
      ELSE r

\* Lines 136-152
Initialize(make_current, valid, description) ==
  IF FML_DCHECK_fails(~is_initialized_)
    THEN InitializeFatal
    ELSE InitializeBody(make_current, valid, description)

Init ==
  /\ is_initialized_ = FALSE
  /\ gl_ = "null"
  /\ format_ = "unset"
  /\ heap = [p \in Handles |-> NoStore]
  /\ issued = {}
  /\ base = [framebuffers |-> ViewFramebuffers, textures |-> ViewTextures]
  /\ ctx = [framebuffers |-> ViewFramebuffers, textures |-> ViewTextures,
            read |-> 0, draw |-> 0, texture_2d |-> 0,
            attachment |-> [n \in Names |-> 0]]
  /\ aborted = FALSE
  /\ misused = FALSE
  /\ init_failed = FALSE
  /\ last = NoCall

\* The process is running and its behaviour is defined
Running == ~aborted /\ ~misused

\* What the collaborators answer during one Initialize, as far as they are
\* asked: MakeCurrent, then IsValid, then GetDescription
InitializeInputs ==
  IF is_initialized_
    THEN {[make_current |-> FALSE, valid |-> FALSE, description |-> NoDescription]}
    ELSE {[make_current |-> FALSE, valid |-> FALSE, description |-> NoDescription],
          [make_current |-> TRUE, valid |-> FALSE, description |-> NoDescription]}
         \cup {[make_current |-> TRUE, valid |-> TRUE, description |-> d] :
                 d \in Descriptions}

\* bool CompositorOpenGL::Initialize()
InitializeCall ==
  /\ Running
  /\ \E e \in InitializeInputs :
       LET r == Initialize(e.make_current, e.valid, e.description) IN
         /\ is_initialized_' = r.is_initialized_
         /\ gl_' = r.gl_
         /\ format_' = r.format_
         /\ aborted' = (r.ret = "fatal")
         /\ init_failed' = (init_failed \/ r.ret = "false")
         /\ last' = [op |-> "Initialize", ret |-> r.ret, calls |-> r.calls,
                     args |-> [NoArgs EXCEPT !.description = e.description]]
  /\ UNCHANGED <<heap, issued, ctx, base, misused>>

\* ------------------------------------------------------ CreateBackingStore
\* Line 42: `!is_initialized_ && !Initialize()`: Initialize runs only when the
\* compositor is not initialized yet.
\* A faulty variant: Initialize's result is not looked at
LazyInitialize_IgnoresResult(make_current, valid, description) ==
  IF is_initialized_
    THEN [ret |-> "true", is_initialized_ |-> is_initialized_, gl_ |-> gl_,
          format_ |-> format_, calls |-> << >>]
    ELSE [Initialize(make_current, valid, description) EXCEPT !.ret = "true"]

\* A faulty variant: line 42 is missing, Create never initializes
LazyInitialize_Skipped(make_current, valid, description) ==
  [ret |-> "true", is_initialized_ |-> is_initialized_, gl_ |-> gl_,
   format_ |-> format_, calls |-> << >>]

LazyInitialize(make_current, valid, description) ==
  IF is_initialized_
    THEN [ret |-> "true", is_initialized_ |-> is_initialized_, gl_ |-> gl_,
          format_ |-> format_, calls |-> << >>]
    ELSE Initialize(make_current, valid, description)

\* Lines 48-63: the GL calls that allocate and set up the texture t and the
\* framebuffer f, as the context they leave behind
AllocateStore(c, t, f) ==
  LET c1 == GenTextures(c, t)
      c2 == GenFramebuffers(c1, f)
      c3 == BindFramebuffer(c2, "GL_FRAMEBUFFER", f)
      c4 == BindTexture(c3, t)
      c5 == BindTexture(c4, 0)
  IN  FramebufferTexture2D(c5, t)

\* Lines 48-63: the same calls, as they appear in the call log
AllocateCalls(t, f, width, height) ==
  << Call("GenTextures", "", <<t>>),
     Call("GenFramebuffers", "", <<f>>),
     Call("BindFramebuffer", "GL_FRAMEBUFFER", <<f>>),
     Call("BindTexture", "GL_TEXTURE_2D", <<t>>),
     Call("TexParameteri", "GL_TEXTURE_MIN_FILTER", << >>),
     Call("TexParameteri", "GL_TEXTURE_MAG_FILTER", << >>),
     Call("TexParameteri", "GL_TEXTURE_WRAP_S", << >>),
     Call("TexParameteri", "GL_TEXTURE_WRAP_T", << >>),
     Call("TexImage2D", "GL_RGBA8", <<width, height>>),
     Call("BindTexture", "GL_TEXTURE_2D", <<0>>),
     Call("FramebufferTexture2D", "GL_FRAMEBUFFER", <<t>>) >>

\* A faulty variant: the descriptor declares the storage format of line 58
BackingStoreResult_StorageFormat(store, p, format) ==
  [type |-> "kFlutterBackingStoreTypeOpenGL",
   gl_type |-> "kFlutterOpenGLTargetTypeFramebuffer",
   name |-> store.framebuffer_id,
   target |-> "GL_RGBA8",
   user_data |-> p]

\* Lines 65-69: the descriptor written to *result for the store at address p
BackingStoreResult(store, p, format) ==
  [type |-> "kFlutterBackingStoreTypeOpenGL",
   gl_type |-> "kFlutterOpenGLTargetTypeFramebuffer",
   name |-> store.framebuffer_id,
   target |-> format,
   user_data |-> p]

\* Line 46: the address of the new FramebufferBackingStore
NewStore == CHOOSE p \in Handles :
              /\ heap[p].state = "unallocated"
              /\ \A q \in Handles : heap[q].state = "unallocated" => p <= q

\* bool CompositorOpenGL::CreateBackingStore(config, result)
CreateBackingStore ==
  /\ Running
  /\ \E e \in InitializeInputs :
       LET r == LazyInitialize(e.make_current, e.valid, e.description)
           args == [NoArgs EXCEPT !.description = e.description]
       IN
         /\ is_initialized_' = r.is_initialized_
         /\ gl_' = r.gl_
         /\ format_' = r.format_
         /\ aborted' = (r.ret = "fatal")
         /\ init_failed' = (init_failed \/ r.ret = "false")
         /\ IF r.ret # "true"
              THEN /\ last' = [op |-> "Create", ret |-> r.ret, calls |-> r.calls,
                               args |-> args]
                   /\ UNCHANGED <<heap, issued, ctx>>
              ELSE \E width \in Sizes, height \in Sizes :
                   /\ \E p \in Handles : heap[p].state = "unallocated"
                   /\ Names \ ctx.textures # {}
                   /\ Names \ ctx.framebuffers # {}
                   /\ LET p == NewStore
                          t == UnusedName(ctx.textures)
                          f == UnusedName(ctx.framebuffers)
                          store == [state |-> "live", framebuffer_id |-> f,
                                    texture_id |-> t]
                      IN /\ heap' = [heap EXCEPT ![p] = store]
                         /\ ctx' = AllocateStore(ctx, t, f)
                         /\ issued' = issued \cup {BackingStoreResult(store, p, r.format_)}
                         /\ last' = [op |-> "Create", ret |-> "true",
                                     calls |-> r.calls \o AllocateCalls(t, f, width, height),
                                     args |-> [args EXCEPT !.width = width,
                                                           !.height = height,
                                                           !.user_data = p]]
  /\ UNCHANGED <<base, misused>>

\* ----------------------------------------------------- CollectBackingStore
\* A faulty variant: line 78 is missing
CollectPreconditions_NoInitCheck(store) ==
  /\ store.type = "kFlutterBackingStoreTypeOpenGL"
  /\ store.gl_type = "kFlutterOpenGLTargetTypeFramebuffer"

\* Lines 78-80: the preconditions of CollectBackingStore
CollectPreconditions(store) ==
  /\ is_initialized_
  /\ store.type = "kFlutterBackingStoreTypeOpenGL"
  /\ store.gl_type = "kFlutterOpenGLTargetTypeFramebuffer"

\* Faulty variants: one of the two deletions is missing
CollectStore_LeaksTexture(c, framebuffer_id, texture_id) ==
  DeleteFramebuffers(c, framebuffer_id)
CollectStore_LeaksFramebuffer(c, framebuffer_id, texture_id) ==
  DeleteTextures(c, texture_id)

\* Lines 85-86: the deletions, given the ids read through user_data
CollectStore(c, framebuffer_id, texture_id) ==
  DeleteTextures(DeleteFramebuffers(c, framebuffer_id), texture_id)

\* Lines 85-86: the same calls, as they appear in the call log
CollectCalls(framebuffer_id, texture_id) ==
  << Call("DeleteFramebuffers", "", <<framebuffer_id>>),
     Call("DeleteTextures", "", <<texture_id>>) >>

\* bool CompositorOpenGL::CollectBackingStore(store)
\* When user_data is not a live store (already deleted at line 88, or never a
\* store), lines 85-88 read and free memory the compositor does not own: the
\* ids deleted are arbitrary, or the process crashes.
CollectBackingStore ==
  /\ Running
  /\ \E store \in issued \cup StaleStores \cup ForeignStores :
       LET args == [NoArgs EXCEPT !.user_data = store.user_data] IN
       IF FML_DCHECK_fails(CollectPreconditions(store))
         THEN /\ aborted' = TRUE
              /\ last' = [op |-> "Collect", ret |-> "fatal", calls |-> << >>,
                          args |-> args]
              /\ UNCHANGED <<heap, issued, ctx, misused>>
       ELSE IF IsLiveStore(store)
         THEN LET user_data == heap[store.user_data] IN
              /\ ctx' = CollectStore(ctx, user_data.framebuffer_id, user_data.texture_id)
              /\ heap' = [heap EXCEPT ![store.user_data] =
                                         [NoStore EXCEPT !.state = "freed"]]
              /\ issued' = issued \ {store}
              /\ last' = [op |-> "Collect", ret |-> "true",
                          calls |-> CollectCalls(user_data.framebuffer_id,
                                                 user_data.texture_id),
                          args |-> args]
              /\ UNCHANGED <<aborted, misused>>
       ELSE \E framebuffer_id \in {0} \cup Names, texture_id \in {0} \cup Names,
               crash \in BOOLEAN :
              /\ misused' = TRUE
              /\ aborted' = crash
              /\ UNCHANGED <<heap, issued>>
              /\ IF crash
                   THEN /\ framebuffer_id = 0 /\ texture_id = 0
                        /\ UNCHANGED ctx
                        /\ last' = [op |-> "Collect", ret |-> "crash",
                                    calls |-> << >>, args |-> args]
                   ELSE /\ ctx' = CollectStore(ctx, framebuffer_id, texture_id)
                        /\ last' = [op |-> "Collect", ret |-> "true",
                                    calls |-> CollectCalls(framebuffer_id, texture_id),
                                    args |-> args]
  /\ UNCHANGED <<is_initialized_, gl_, format_, base, init_failed>>

\* ---------------------------------------------------- destruction_callback
\* A faulty variant: the hook releases the store's GPU objects
destruction_callback_Deletes(c, user_data) ==
  IF user_data \in Handles
    THEN CollectStore(c, heap[user_data].framebuffer_id, heap[user_data].texture_id)
    ELSE c

\* Lines 70-73: the lambda stored in the descriptor has an empty body; the
\* context it leaves is the context it found
destruction_callback(c, user_data) == c

\* The host invokes the hook of a descriptor CreateBackingStore produced, with
\* the descriptor's user_data, before or after the store was collected
DestructionCallback ==
  /\ Running
  /\ \E store \in issued \cup StaleStores :
       /\ ctx' = destruction_callback(ctx, store.user_data)
       /\ last' = [op |-> "DestructionCallback", ret |-> "none", calls |-> << >>,
                   args |-> [NoArgs EXCEPT !.user_data = store.user_data]]
  /\ UNCHANGED <<is_initialized_, gl_, format_, heap, issued, base, aborted,
                 misused, init_failed>>

\* ---------------------------------------------------------------- Present
\* A faulty variant: any non-empty layers array is accepted
LayersCountSupported_AtLeastOne(layers_count) == layers_count >= 1

\* Line 97: the supported number of layers
LayersCountSupported(layers_count) == layers_count = 1

\* Lines 96-101: the preconditions of Present
PresentPreconditions(layers_count, layer) ==
  /\ is_initialized_
  /\ LayersCountSupported(layers_count)
  /\ layer.type = "kFlutterLayerContentTypeBackingStore"
  /\ layer.backing_store.type = "kFlutterBackingStoreTypeOpenGL"
  /\ layer.backing_store.gl_type = "kFlutterOpenGLTargetTypeFramebuffer"

\* Lines 118-133: the calls Present makes once the context is current
BlitCalls(source_id, destination_id, width, height, swapped) ==
  << Call("BindFramebuffer", "GL_READ_FRAMEBUFFER", <<source_id>>),
     Call("BindFramebuffer", "GL_DRAW_FRAMEBUFFER", <<destination_id>>),
     Call("BlitFramebuffer", "GL_COLOR_BUFFER_BIT",
          <<0, 0, width, height, 0, 0, width, height>>),
     Call("SwapBuffers", "", <<B2I(swapped)>>) >>

\* Lines 118-119: the context these calls leave
BlitContext(c, source_id, destination_id) ==
  BindFramebuffer(BindFramebuffer(c, "GL_READ_FRAMEBUFFER", source_id),
                  "GL_DRAW_FRAMEBUFFER", destination_id)

\* A faulty variant: height and width change places at lines 111 and 121-128
PresentLayer_SwapsAxes(layer, view, destination_id, make_current, swapped) ==
  LET width == layer.size.height
      height == layer.size.width
      source_id == layer.backing_store.name
      get == <<Call("GetFrameBufferId", "", <<width, height>>)>>
      mc == <<Call("MakeCurrent", "", <<B2I(make_current)>>)>>
  IN
  IF ~view
    THEN [ret |-> "false", calls |-> << >>, ctx |-> ctx]
  ELSE IF ~make_current
    THEN [ret |-> "false", calls |-> get \o mc, ctx |-> ctx]
  ELSE [ret |-> IF swapped THEN "true" ELSE "false",
        calls |-> get \o mc \o
                  BlitCalls(source_id, destination_id, width, height, swapped),
        ctx |-> BlitContext(ctx, source_id, destination_id)]

\* A faulty variant: the result of SwapBuffers is dropped at line 133
PresentLayer_IgnoresSwap(layer, view, destination_id, make_current, swapped) ==
  LET width == layer.size.width
      height == layer.size.height
      source_id == layer.backing_store.name
      get == <<Call("GetFrameBufferId", "", <<width, height>>)>>
      mc == <<Call("MakeCurrent", "", <<B2I(make_current)>>)>>
  IN
  IF ~view
    THEN [ret |-> "false", calls |-> << >>, ctx |-> ctx]
  ELSE IF ~make_current
    THEN [ret |-> "false", calls |-> get \o mc, ctx |-> ctx]
  ELSE [ret |-> "true",
        calls |-> get \o mc \o
                  BlitCalls(source_id, destination_id, width, height, swapped),
        ctx |-> BlitContext(ctx, source_id, destination_id)]

\* A faulty variant: the layer's framebuffer is deleted once it has been copied
PresentLayer_ReleasesSource(layer, view, destination_id, make_current, swapped) ==
  LET width == layer.size.width
      height == layer.size.height
      source_id == layer.backing_store.name
      get == <<Call("GetFrameBufferId", "", <<width, height>>)>>
      mc == <<Call("MakeCurrent", "", <<B2I(make_current)>>)>>
  IN
  IF ~view
    THEN [ret |-> "false", calls |-> << >>, ctx |-> ctx]
  ELSE IF ~make_current
    THEN [ret |-> "false", calls |-> get \o mc, ctx |-> ctx]
  ELSE [ret |-> IF swapped THEN "true" ELSE "false",
        calls |-> get \o mc \o
                  BlitCalls(source_id, destination_id, width, height, swapped),
        ctx |-> DeleteFramebuffers(BlitContext(ctx, source_id, destination_id),
                                   source_id)]

\* A faulty variant: the context is made current before the view is looked at
PresentLayer_ViewCheckedLate(layer, view, destination_id, make_current, swapped) ==
  LET width == layer.size.width
      height == layer.size.height
      source_id == layer.backing_store.name
      mc == <<Call("MakeCurrent", "", <<B2I(make_current)>>)>>
      get == <<Call("GetFrameBufferId", "", <<width, height>>)>>
  IN
  IF ~make_current \/ ~view
    THEN [ret |-> "false", calls |-> mc, ctx |-> ctx]
  ELSE [ret |-> IF swapped THEN "true" ELSE "false",
        calls |-> mc \o get \o
                  << Call("BindFramebuffer", "GL_READ_FRAMEBUFFER", <<source_id>>),
                     Call("BindFramebuffer", "GL_DRAW_FRAMEBUFFER", <<destination_id>>),
                     Call("BlitFramebuffer", "GL_COLOR_BUFFER_BIT",
                          <<0, 0, width, height, 0, 0, width, height>>),
                     Call("SwapBuffers", "", <<B2I(swapped)>>) >>,
        ctx |-> BindFramebuffer(BindFramebuffer(ctx, "GL_READ_FRAMEBUFFER", source_id),
                                "GL_DRAW_FRAMEBUFFER", destination_id)]

\* Lines 103-133: Present once its preconditions hold, as the record of what
\* it returns, the calls it makes and the context it leaves
PresentLayer(layer, view, destination_id, make_current, swapped) ==
  LET width == layer.size.width
      height == layer.size.height
      source_id == layer.backing_store.name
      get == <<Call("GetFrameBufferId", "", <<width, height>>)>>
      mc == <<Call("MakeCurrent", "", <<B2I(make_current)>>)>>
  IN
  IF ~view
    THEN [ret |-> "false", calls |-> << >>, ctx |-> ctx]
  ELSE IF ~make_current
    THEN [ret |-> "false", calls |-> get \o mc, ctx |-> ctx]
  ELSE [ret |-> IF swapped THEN "true" ELSE "false",
        calls |-> get \o mc \o
                  << Call("BindFramebuffer", "GL_READ_FRAMEBUFFER", <<source_id>>),
                     Call("BindFramebuffer", "GL_DRAW_FRAMEBUFFER", <<destination_id>>),
                     Call("BlitFramebuffer", "GL_COLOR_BUFFER_BIT",
                          <<0, 0, width, height, 0, 0, width, height>>),
                     Call("SwapBuffers", "", <<B2I(swapped)>>) >>,
        ctx |-> BindFramebuffer(BindFramebuffer(ctx, "GL_READ_FRAMEBUFFER", source_id),
                                "GL_DRAW_FRAMEBUFFER", destination_id)]

\* The stores the host may put in a layer: descriptors of stores it has created
\* and not yet collected, or descriptors this compositor did not produce
PresentableStores == issued \cup ForeignStores

\* A layer whose fields are not read
NoLayer == [type |-> "kFlutterLayerContentTypeBackingStore",
            backing_store |-> CHOOSE s \in ForeignStores :
                                s.type = "kFlutterBackingStoreTypeSoftware",
            size |-> [width |-> 0, height |-> 0]]

\* The layers array and count the host passes, and what the view and the
\* surface manager answer, as far as Present reads them
PresentInputs ==
  LET unread == [layers_count |-> 0, layer |-> NoLayer, view |-> FALSE,
                 destination_id |-> 0, make_current |-> FALSE, swapped |-> FALSE]
      counts == {[unread EXCEPT !.layers_count = n] : n \in 0..MaxLayers}
      layers == {[type |-> ty, backing_store |-> s, size |-> [width |-> 0, height |-> 0]] :
                   ty \in LayerTypes, s \in PresentableStores}
      sized(l) == {[l EXCEPT !.size = [width |-> w, height |-> h]] :
                     w \in Sizes, h \in Sizes}
      \* lines 96-97 fail: layers[0] is not read
      uncounted == {i \in counts : ~is_initialized_ \/ ~LayersCountSupported(i.layers_count)}
      \* the layer's kind is read; with no view attached, nothing else is
      unviewed == {[i EXCEPT !.layer = l] : i \in counts \ uncounted, l \in layers}
      \* a view is attached: the size is read and the collaborators answer
      viewed == UNION {{[i EXCEPT !.view = TRUE, !.layer = l, !.destination_id = d,
                                  !.make_current = m, !.swapped = m /\ sw] :
                           l \in sized(i.layer), d \in {0} \cup base.framebuffers,
                           m \in BOOLEAN, sw \in BOOLEAN} :
                         i \in {j \in unviewed :
                                  PresentPreconditions(j.layers_count, j.layer)}}
  IN uncounted \cup unviewed \cup viewed

\* bool CompositorOpenGL::Present(layers, layers_count)
Present ==
  /\ Running
  /\ \E i \in PresentInputs :
       LET args == [NoArgs EXCEPT !.layers_count = i.layers_count,
                                  !.view = i.view,
                                  !.width = i.layer.size.width,
                                  !.height = i.layer.size.height,
                                  !.user_data = i.layer.backing_store.user_data]
       IN
       IF FML_DCHECK_fails(PresentPreconditions(i.layers_count, i.layer))
         THEN /\ aborted' = TRUE
              /\ last' = [op |-> "Present", ret |-> "fatal", calls |-> << >>,
                          args |-> args]
              /\ UNCHANGED ctx
         ELSE LET r == PresentLayer(i.layer, i.view, i.destination_id,
                                    i.make_current, i.swapped)
              IN /\ aborted' = FALSE
                 /\ ctx' = r.ctx
                 /\ last' = [op |-> "Present", ret |-> r.ret, calls |-> r.calls,
                             args |-> args]
  /\ UNCHANGED <<is_initialized_, gl_, format_, heap, issued, base, misused,
                 init_failed>>

Next ==
  \/ InitializeCall
  \/ CreateBackingStore
  \/ CollectBackingStore
  \/ DestructionCallback
  \/ Present

Spec == Init /\ [][Next]_vars

\* ================================================================ properties
\* The functions called by a call log, and the arguments given to one of them
Made(calls, fn) == \E i \in DOMAIN calls : calls[i].fn = fn
ArgsOf(calls, fn) == {calls[i].args : i \in {j \in DOMAIN calls : calls[j].fn = fn}}
InitializeFns == {"MakeCurrent", "ProcTableGLES", "IsValid", "GetSupportedTextureFormat"}
AllocateFns == {"GenTextures", "GenFramebuffers", "BindFramebuffer", "BindTexture",
                "TexParameteri", "TexImage2D", "FramebufferTexture2D"}
MadeAny(calls, fns) == \E i \in DOMAIN calls : calls[i].fn \in fns

\* C1 (Balance): as long as every Collect was given a live handle, whenever all
\* the handles created so far have been collected - in particular after N
\* Creates followed by N Collects in any order - the live textures and
\* framebuffers are exactly those that were live before the first Create.
C1_Balance ==
  (~misused /\ LiveHandles = {}) =>
    /\ ctx.framebuffers = base.framebuffers
    /\ ctx.textures = base.textures

\* C1: MaxStores stores were created and then each collected once
C1_Witness ==
  /\ ~misused
  /\ \A p \in Handles : heap[p].state = "freed"
  /\ last.op = "Collect" /\ last.ret = "true"
  /\ ctx.framebuffers = base.framebuffers /\ ctx.textures = base.textures

\* C2 (handle validity): as long as no handle is collected twice, both ids of
\* every created and not yet collected handle are live objects of its own (no
\* two live handles share one, none is an object of the view), the host's
\* descriptor of it names its framebuffer, and when Collect(h) has returned
\* neither id of h is live while every other live handle still has its objects.
C2_HandleValidity ==
  ~misused =>
    /\ \A p \in LiveHandles :
         /\ heap[p].framebuffer_id \in ctx.framebuffers \ base.framebuffers
         /\ heap[p].texture_id \in ctx.textures \ base.textures
    /\ \A p, q \in LiveHandles :
         p # q => /\ heap[p].framebuffer_id # heap[q].framebuffer_id
                  /\ heap[p].texture_id # heap[q].texture_id
    /\ \A s \in issued :
         /\ IsLiveStore(s)
         /\ s.name = heap[s.user_data].framebuffer_id
    /\ (last.op = "Collect" /\ last.ret = "true") =>
         /\ heap[last.args.user_data].state = "freed"
         /\ \A a \in ArgsOf(last.calls, "DeleteFramebuffers") : a[1] \notin ctx.framebuffers
         /\ \A a \in ArgsOf(last.calls, "DeleteTextures") : a[1] \notin ctx.textures
         /\ Made(last.calls, "DeleteFramebuffers") /\ Made(last.calls, "DeleteTextures")

\* C2: one handle has just been collected while another is still live
C2_Witness ==
  /\ ~misused
  /\ last.op = "Collect" /\ last.ret = "true"
  /\ LiveHandles # {}

\* C3 (initialization is one-way): no step takes an Initialized compositor
\* back to Uninitialized.
C3_InitializedForever == [][is_initialized_ => is_initialized_']_vars

\* C3: still Initialized after an initialization attempt failed, stores were
\* created and all of them were collected
C3_Witness ==
  /\ is_initialized_ /\ init_failed
  /\ last.op = "Collect" /\ last.ret = "true"
  /\ LiveHandles = {}

\* C4 (failed initialization): an initialization attempt that returns failure,
\* made by Initialize or by Create, leaves every field as it was:
\* Uninitialized, no function table, no format, no store and no GL object
\* touched; and an attempt of an Uninitialized compositor in which MakeCurrent
\* succeeds and the table is valid returns success and leaves it Initialized,
\* also after earlier failures.
C4_FailedInitialize ==
  [][ /\ (last'.op \in {"Initialize", "Create"} /\ last'.ret = "false") =>
           /\ ~is_initialized_' /\ gl_' = "null" /\ format_' = "unset"
           /\ UNCHANGED <<is_initialized_, gl_, format_, heap, issued, ctx>>
      /\ ( /\ ~is_initialized_
           /\ last'.op \in {"Initialize", "Create"}
           /\ <<1>> \in ArgsOf(last'.calls, "MakeCurrent")
           /\ <<1>> \in ArgsOf(last'.calls, "IsValid") ) =>
           /\ last'.ret = "true"
           /\ is_initialized_' /\ gl_' = "valid" /\ format_' # "unset"
    ]_vars

\* C4: an attempt failed on an invalid table and a later one succeeded
C4_Witness ==
  /\ init_failed
  /\ is_initialized_
  /\ last.op \in {"Initialize", "Create"} /\ last.ret = "true"
  /\ Made(last.calls, "GetSupportedTextureFormat")

\* C5 (initialization idempotence): an Initialize call on an Initialized
\* compositor is stopped by the guard before it calls MakeCurrent, resolves a
\* table or negotiates a format, and a Create on an Initialized compositor
\* succeeds without calling any of them; the table and the format stay as
\* they are.
C5_InitializeOnce ==
  [][ is_initialized_ =>
        /\ last'.op = "Initialize" =>
             last'.ret = "fatal" /\ last'.calls = << >> /\ aborted'
        /\ last'.op = "Create" =>
             last'.ret = "true" /\ ~MadeAny(last'.calls, InitializeFns)
        /\ gl_' = gl_ /\ format_' = format_
    ]_vars

\* C5: Initialize was called on an Initialized compositor
C5_Witness ==
  /\ is_initialized_
  /\ last.op = "Initialize" /\ last.ret = "fatal"
  /\ aborted

\* C6 (Create before initialization): a Create on an Uninitialized compositor
\* starts with Initialize's MakeCurrent; it makes allocation calls only when
\* that initialization has succeeded, after it; a Create that returns failure
\* has made no allocation call, touched no GL object, allocated no store and
\* handed out no descriptor. A Create on an Initialized compositor makes no
\* initialization call.
C6_CreateBeforeInit ==
  [][ last'.op = "Create" =>
        /\ ~is_initialized_ =>
             /\ last'.calls # << >>
             /\ last'.calls[1].fn = "MakeCurrent"
        /\ MadeAny(last'.calls, AllocateFns) =>
             /\ is_initialized_' /\ gl_' = "valid" /\ last'.ret = "true"
             /\ ~is_initialized_ =>
                  /\ Len(last'.calls) > 4
                  /\ \A i \in 1..4 : last'.calls[i].fn \in InitializeFns
        /\ \A i \in DOMAIN last'.calls :
             (i > 4 \/ is_initialized_) => last'.calls[i].fn \notin InitializeFns
        /\ last'.ret # "true" =>
             /\ ~MadeAny(last'.calls, AllocateFns)
             /\ UNCHANGED <<heap, issued, ctx>>
             /\ ~is_initialized_'
    ]_vars

\* C6: a Create on an Uninitialized compositor failed in its initialization
C6_Witness ==
  /\ last.op = "Create" /\ last.ret = "false"
  /\ ~is_initialized_
  /\ issued = {} /\ LiveHandles = {}

\* C7 (format selection): the format an initialization fixes is the one the
\* priority table gives for the description it read: with the vendor-neutral
\* extension BGRA8 whatever the version; without it, with the Apple extension
\* and version 3.0 or later BGRA8; with the Apple extension and an earlier
\* version RGBA8; with neither extension RGBA8.
C7_FormatSelection ==
  (last.op \in {"Initialize", "Create"} /\ Made(last.calls, "GetSupportedTextureFormat")) =>
    LET d == last.args.description
        ext == "GL_EXT_texture_format_BGRA8888" \in d.extensions
        apple == "GL_APPLE_texture_format_BGRA8888" \in d.extensions
        v3 == d.version[1] >= 3
    IN  /\ d \in Descriptions
        /\ ext => format_ = "GL_BGRA8_EXT"
        /\ (~ext /\ apple /\ v3) => format_ = "GL_BGRA8_EXT"
        /\ (~ext /\ apple /\ ~v3) => format_ = "GL_RGBA8"
        /\ (~ext /\ ~apple) => format_ = "GL_RGBA8"

\* C7: the Apple extension alone, with a version below 3.0, gave RGBA8
C7_Witness ==
  /\ last.op \in {"Initialize", "Create"}
  /\ Made(last.calls, "GetSupportedTextureFormat")
  /\ last.args.description.extensions = {"GL_APPLE_texture_format_BGRA8888"}
  /\ last.args.description.version[1] < 3
  /\ format_ = "GL_RGBA8"

\* C8 (the format is fixed): once the compositor is Initialized no step
\* changes format_; every descriptor the host holds declares format_, and a
\* successful Create hands out one new descriptor that declares format_ and
\* whose id is the framebuffer that this Create generated.
C8_FormatFixed ==
  [][ /\ is_initialized_ => format_' = format_
      /\ \A s \in issued' : s.target = format_' /\ format_' # "unset"
      /\ (last'.op = "Create" /\ last'.ret = "true") =>
           \E s \in issued' \ issued :
             /\ issued' = issued \cup {s}
             /\ s.target = format_'
             /\ s.user_data = last'.args.user_data
             /\ ArgsOf(last'.calls, "GenFramebuffers") = {<<s.name>>}
    ]_vars

\* C8: a second store was created after the first one was presented, and
\* both descriptors declare BGRA8
C8_Witness ==
  /\ last.op = "Create" /\ last.ret = "true"
  /\ Cardinality(issued) = 2
  /\ format_ = "GL_BGRA8_EXT"
  /\ \A s \in issued : s.target = "GL_BGRA8_EXT"

\* C9 (no view): a Present whose preconditions hold and that finds no view
\* attached returns failure having made no call at all: no MakeCurrent, no
\* bind, no blit, no swap; the GL context is as it was.
C9_NoView ==
  [][ (last'.op = "Present" /\ last'.ret # "fatal" /\ ~last'.args.view) =>
        /\ last'.ret = "false"
        /\ last'.calls = << >>
        /\ ctx' = ctx
    ]_vars

\* C9: a Present of one layer found no view attached
C9_Witness ==
  /\ is_initialized_
  /\ last.op = "Present" /\ last.ret = "false"
  /\ last.args.layers_count = 1 /\ ~last.args.view
  /\ last.args.user_data \in LiveHandles

\* C10 (layer count): a Present with 0 layers or with 2 or more layers is
\* stopped by a fatal check; it asks for no destination, binds and copies
\* nothing and swaps no buffer.
C10_LayerCount ==
  (last.op = "Present" /\ last.args.layers_count # 1) =>
    /\ last.ret = "fatal"
    /\ aborted
    /\ last.calls = << >>

\* C10: an Initialized compositor was asked to present two layers
C10_Witness ==
  /\ is_initialized_
  /\ last.op = "Present" /\ last.args.layers_count = 2
  /\ last.ret = "fatal"

\* C11 (Present geometry): a Present of one layer of declared size (w, h) asks
\* the view for the destination with exactly (w, h), in that order, and its
\* blit copies the rectangle (0,0)-(w,h) of the source to the rectangle
\* (0,0)-(w,h) of the destination, for every w and h.
C11_Geometry ==
  (last.op = "Present" /\ last.args.view) =>
    LET w == last.args.width
        h == last.args.height
    IN  /\ ArgsOf(last.calls, "GetFrameBufferId") = {<<w, h>>}
        /\ ArgsOf(last.calls, "BlitFramebuffer") \subseteq {<<0, 0, w, h, 0, 0, w, h>>}
        /\ last.ret = "true" => Made(last.calls, "BlitFramebuffer")

\* C11: a layer that is not square was presented
C11_Witness ==
  /\ last.op = "Present" /\ last.ret = "true"
  /\ last.args.width = 1 /\ last.args.height = 2
  /\ ArgsOf(last.calls, "BlitFramebuffer") = {<<0, 0, 1, 2, 0, 0, 1, 2>>}

\* C12 (double collection): a Collect of a handle that was already collected
\* is stopped by a fatal check and makes no delete call.
C12_DoubleCollectFatal ==
  (last.op = "Collect" /\ misused /\ last.args.user_data \in Handles) =>
    /\ last.ret = "fatal"
    /\ last.calls = << >>

\* C13 (operating before initialization): a Collect or a Present on an
\* Uninitialized compositor - never initialized, or after failed attempts
\* only - is stopped by the fatal check on is_initialized_: it makes no call
\* through the absent function table and touches no GL object.
C13_UninitializedFatal ==
  (last.op \in {"Collect", "Present"} /\ ~is_initialized_) =>
    /\ last.ret = "fatal"
    /\ aborted
    /\ last.calls = << >>
    /\ gl_ = "null"
    /\ ctx.framebuffers = base.framebuffers /\ ctx.textures = base.textures
    /\ ctx.read = 0 /\ ctx.draw = 0

\* C13: after a failed initialization, a Present of one layer was stopped
C13_Witness ==
  /\ ~is_initialized_ /\ init_failed
  /\ last.op = "Present" /\ last.ret = "fatal"
  /\ last.args.layers_count = 1

\* The functions a call log names, in order, and with their targets
FnsOf(calls) == [i \in DOMAIN calls |-> calls[i].fn]
TargetsOf(calls) == [i \in DOMAIN calls |-> calls[i].target]

\* C14 (order of a Present): with a view attached, Present asks the view for
\* the destination, then makes the context current. If that fails it returns
\* failure, having bound, copied and swapped nothing: the destination request
\* is the only thing that has happened. Otherwise it binds the layer's
\* framebuffer as read source, the destination as draw target, blits, swaps,
\* and returns exactly what the swap returned. Every step is made once.
C14_PresentOrder ==
  [][ (last'.op = "Present" /\ last'.args.view) =>
        \/ /\ FnsOf(last'.calls) = <<"GetFrameBufferId", "MakeCurrent">>
           /\ last'.calls[2].args = <<0>>
           /\ last'.ret = "false"
           /\ ctx' = ctx
        \/ /\ FnsOf(last'.calls) =
                <<"GetFrameBufferId", "MakeCurrent", "BindFramebuffer",
                  "BindFramebuffer", "BlitFramebuffer", "SwapBuffers">>
           /\ last'.calls[2].args = <<1>>
           /\ last'.calls[3].target = "GL_READ_FRAMEBUFFER"
           /\ last'.calls[4].target = "GL_DRAW_FRAMEBUFFER"
           /\ last'.args.user_data \in LiveHandles =>
                last'.calls[3].args = <<heap[last'.args.user_data].framebuffer_id>>
           /\ ctx'.read = last'.calls[3].args[1]
           /\ ctx'.draw = last'.calls[4].args[1]
           /\ ctx'.draw \in {0} \cup base.framebuffers
           /\ last'.ret = (IF last'.calls[6].args = <<1>> THEN "true" ELSE "false")
    ]_vars

\* C14: the context could not be made current after the destination request
C14_Witness ==
  /\ last.op = "Present" /\ last.args.view
  /\ last.ret = "false"
  /\ FnsOf(last.calls) = <<"GetFrameBufferId", "MakeCurrent">>
  /\ last.args.user_data \in LiveHandles

\* C15 (effect of Create): a successful Create on an Initialized compositor
\* adds exactly one texture and one framebuffer to the live objects, the
\* texture attached to the framebuffer, and changes nothing else: the flag,
\* the table, the format, the stores and objects of the other handles and
\* the framebuffer and texture bindings of the context are as before.
C15_CreateFrame ==
  [][ (is_initialized_ /\ last'.op = "Create" /\ last'.ret = "true") =>
        LET p == last'.args.user_data
            f == heap'[p].framebuffer_id
            t == heap'[p].texture_id
        IN  /\ f \notin ctx.framebuffers /\ t \notin ctx.textures
            /\ ctx'.framebuffers = ctx.framebuffers \cup {f}
            /\ ctx'.textures = ctx.textures \cup {t}
            /\ ctx'.attachment[f] = t
            /\ \A n \in Names \ {f} : ctx'.attachment[n] = ctx.attachment[n]
            /\ UNCHANGED <<is_initialized_, gl_, format_>>
            /\ \A q \in Handles \ {p} : heap'[q] = heap[q]
            /\ ctx'.read = ctx.read
            /\ ctx'.draw = ctx.draw
            /\ ctx'.texture_2d = ctx.texture_2d
    ]_vars

\* C16 (Collect is the sole release path): a live texture, a live framebuffer
\* or a live store disappears only in a step that is a Collect call. A call
\* of a descriptor's destruction hook deletes nothing and frees nothing: the
\* context, the stores and the outstanding descriptors are as before, and a
\* handle that was live is still live, still outstanding, and still meets
\* the preconditions of Collect.
C16_SoleRelease ==
  [][ /\ ( \/ ~(ctx.framebuffers \subseteq ctx'.framebuffers)
           \/ ~(ctx.textures \subseteq ctx'.textures)
           \/ ~(LiveHandles \subseteq LiveHandles') ) => last'.op = "Collect"
      /\ last'.op = "DestructionCallback" =>
            /\ UNCHANGED <<ctx, heap, issued>>
            /\ \A store \in issued :
                  store.user_data = last'.args.user_data =>
                    /\ store \in issued'
                    /\ IsLiveStore(store)'
                    /\ ~FML_DCHECK_fails(CollectPreconditions(store))'
                    /\ heap'[store.user_data].framebuffer_id \in ctx'.framebuffers
                    /\ heap'[store.user_data].texture_id \in ctx'.textures
    ]_vars

\* C16: the hook of an outstanding descriptor has just run
C16_Witness ==
  /\ last.op = "DestructionCallback"
  /\ last.args.user_data \in LiveHandles
  /\ \E store \in issued : store.user_data = last.args.user_data

\* C17 (table and format go with the flag): in every state between public
\* calls the function table is held exactly when the compositor is
\* initialized, and then it is a table that passed IsValid; the format has
\* been chosen exactly when the compositor is initialized. A table that
\* failed IsValid is never held.
C17_TableAndFormat ==
  /\ gl_ \in {"null", "valid"}
  /\ (gl_ # "null") <=> is_initialized_
  /\ (format_ # "unset") <=> is_initialized_
  /\ is_initialized_ => format_ \in {"GL_BGRA8_EXT", "GL_RGBA8"}

\* C17: the table of the last Initialize failed IsValid, and no attempt has
\* succeeded yet
C17_Witness ==
  /\ last.op = "Initialize" /\ last.ret = "false"
  /\ ArgsOf(last.calls, "IsValid") = {<<0>>}
  /\ ~is_initialized_
  /\ gl_ = "null" /\ format_ = "unset"

\* C18 (a live handle implies Initialized): after every step, if some store
\* has been created and not collected, or some descriptor is outstanding, the
\* compositor is initialized. So a Collect or a Present that is given the
\* handle of a live store finds the compositor initialized: that Collect is
\* not fatal and returns success, and that Present is fatal only for its
\* layer, never for a missing initialization (with one layer of the
\* backing-store kind and this store it is not fatal at all).
C18_LiveImpliesInitialized ==
  [][ /\ (LiveHandles' # {} \/ issued' # {}) => is_initialized_'
      /\ (last'.op \in {"Collect", "Present"} /\ last'.args.user_data \in LiveHandles) =>
            /\ is_initialized_
            /\ last'.op = "Collect" => last'.ret = "true"
            /\ (last'.op = "Present" /\ last'.ret = "fatal") =>
                  \A store \in issued :
                    store.user_data = last'.args.user_data =>
                      ~PresentPreconditions(last'.args.layers_count,
                         [type |-> "kFlutterLayerContentTypePlatformView",
                          backing_store |-> store]) /\
                      PresentPreconditions(last'.args.layers_count,
                         [type |-> "kFlutterLayerContentTypeBackingStore",
                          backing_store |-> store])
    ]_vars

\* C18: initialization failed before it succeeded, and a live store has been
\* presented
C18_Witness ==
  /\ is_initialized_ /\ init_failed
  /\ last.op = "Present" /\ last.ret = "true"
  /\ last.args.user_data \in LiveHandles

\* C19 (Present keeps the compositor's state): a Present call, whatever it
\* returns and wherever it stops, leaves the initialization flag, the
\* function table, the format, every store, every outstanding descriptor and
\* the live textures and framebuffers with their attachments as they were;
\* the presented handle is still live with its two GPU objects.
C19_PresentFrame ==
  [][ last'.op = "Present" =>
        /\ UNCHANGED <<is_initialized_, gl_, format_, heap, issued>>
        /\ ctx'.framebuffers = ctx.framebuffers
        /\ ctx'.textures = ctx.textures
        /\ ctx'.attachment = ctx.attachment
        /\ \A store \in issued :
              store.user_data = last'.args.user_data =>
                /\ IsLiveStore(store)'
                /\ heap'[store.user_data].framebuffer_id \in ctx'.framebuffers
                /\ heap'[store.user_data].texture_id \in ctx'.textures
    ]_vars

\* C19: a live store was copied to the view and the swap failed
C19_Witness ==
  /\ last.op = "Present" /\ last.ret = "false"
  /\ ArgsOf(last.calls, "SwapBuffers") = {<<0>>}
  /\ last.args.user_data \in LiveHandles
====
